---- MODULE Spec2Model ----
(***************************************************************************)
(* go_to_sheets: for every configured loader, run its SQL query, turn the  *)
(* result cursor into a header-prefixed grid and write the grid to a range *)
(* of a remote spreadsheet, after obtaining an OAuth client (cache first,  *)
(* interactive code exchange as the fallback).  Model of src/main.go.      *)
(***************************************************************************)
EXTENDS Integers, Sequences, FiniteSets, TLC

(* ------------------------------------------------------------ bounds --- *)

\* Largest column count and row count of a cursor in the conversion runs.
MaxCols == 2
MaxRows == 2
\* Largest column count and row count of a cursor in the batch runs
\* (several loaders).
BatchCols == 1
BatchRows == 1

(* ----------------------------------------------------- configuration --- *)

\* The names that may appear under the "loaders" key of config.yml.  "ulta"
\* is the name main.go hardcodes at line 122.
LoaderNames == {"ulta", "orders"}

\* config.yml: loaders.<name>.{sheet,range,query}.
ConfigFile ==
    ("ulta"   :> [sheet |-> "sheet_ulta",   range |-> "ulta!A1",   query |-> "q_ulta"]) @@
    ("orders" :> [sheet |-> "sheet_orders", range |-> "orders!A1", query |-> "q_orders"])

\* viper.GetString("loaders." + name + "." + key): the configured value, or
\* the empty string when the key is not set.
GetString(configured, name, key) ==
    IF name \in configured THEN ConfigFile[name][key] ELSE ""

\* The column names the database reports for a loader's query.
ColumnPool ==
    ("ulta"   :> <<"ulta_c1", "ulta_c2", "ulta_c3", "ulta_c4">>) @@
    ("orders" :> <<"orders_c1", "orders_c2", "orders_c3", "orders_c4">>)

\* The query of the running loader, found by its query string.
QueryColumns(q, c) ==
    LET l == CHOOSE n \in LoaderNames : ConfigFile[n].query = q
    IN  SubSeq(ColumnPool[l], 1, c)

(* ------------------------------------------------------------- cells --- *)

\* A Go interface{} value: its dynamic type and its text.
Cell(t, v) == [t |-> t, v |-> v]

\* What rows.Scan stores into *interface{} targets with the postgres driver:
\* a []byte, an int64, or nil for SQL NULL.
RawCells == {Cell("[]byte", "ab"), Cell("int64", "42"), Cell("nil", "")}

RawRows(c) == [1..c -> RawCells]

\* make([]interface{}, count): all nil.
NilRow(c) == [i \in 1..c |-> Cell("nil", "")]

(* ------------------------------------------------------------- state --- *)

VARIABLES
    pc,            \* position of main
    exitKind,      \* "running", "return", "fatal" (os.Exit) or "panic"
    failure,       \* what ended the process early, "none" otherwise
    cache0,        \* ./cache.json when the process started
    cache,         \* ./cache.json now
    tok,           \* the token getClient holds
    authorized,    \* config.Client has produced the http client
    prompts,       \* times the authorization URL was printed
    exchanges,     \* times config.Exchange was called
    loaders,       \* viper.GetStringMap("loaders"): the configured names
    pending,       \* loaders the range loop has not yet visited
    loader,        \* the loop variable
    spreadsheetId, \* line 121
    rangeData,     \* line 122
    conns,         \* loaders for which DbConnect returned a *sql.DB, in order
    rows,          \* the *sql.Rows of the running loader
    cursor,        \* per loader: "unopened", "nil", "open" or "closed"
    deferred,      \* the deferred rows.Close() calls of main, oldest first
    fetched,       \* the rows the cursor has yielded to rows.Next so far
    exhausted,     \* rows.Next has returned false for the running loader
    heap,          \* the slices allocated for the running loader, by address
    sheetValues,   \* addresses of the rows of the grid
    writes         \* the BatchUpdate calls sent, in order

vars == <<pc, exitKind, failure, cache0, cache, tok, authorized, prompts,
          exchanges, loaders, pending, loader, spreadsheetId, rangeData,
          conns, rows, cursor, deferred, fetched, exhausted, heap,
          sheetValues, writes>>

authVars == <<cache0, cache, tok, authorized, prompts, exchanges>>
loopVars == <<pending, loader, spreadsheetId, rangeData>>
dbVars   == <<conns, rows, cursor, deferred, fetched, exhausted>>
gridVars == <<heap, sheetValues>>

\* Addresses of the two slices allocated before the row loop.
HeadersAddr == 1
ValuesAddr == 2

NoRows == [status |-> "unopened", columns |-> <<>>, more |-> FALSE]

InitWith(loaderSets) ==
    /\ pc = "start"
    /\ exitKind = "running"
    /\ failure = "none"
    /\ cache0 \in {"missing", "corrupt", "cachedToken"}
    /\ cache = cache0
    /\ tok = "none"
    /\ authorized = FALSE
    /\ prompts = 0
    /\ exchanges = 0
    /\ loaders \in loaderSets
    /\ pending = {}
    /\ loader = "none"
    /\ spreadsheetId = ""
    /\ rangeData = ""
    /\ conns = <<>>
    /\ rows = NoRows
    /\ cursor = [l \in LoaderNames |-> "unopened"]
    /\ deferred = <<>>
    /\ fetched = <<>>
    /\ exhausted = FALSE
    /\ heap = <<>>
    /\ sheetValues = <<>>
    /\ writes = <<>>

(* ------------------------------------------------- ways the run ends --- *)

\* log.Fatal / log.Fatalf: os.Exit(1); deferred calls do not run.
Fatal(why) ==
    /\ pc' = "exit"
    /\ exitKind' = "fatal"
    /\ failure' = why

\* The deferred rows.Close() calls run, newest first; closing is idempotent,
\* and a Close on a nil *sql.Rows panics again without stopping the others.
RunDeferred(cur) ==
    [l \in LoaderNames |->
        IF cur[l] = "open" /\ \E i \in 1..Len(deferred) : deferred[i] = l
        THEN "closed" ELSE cur[l]]

\* panic(...): the deferred calls run, then the process dies.
Panic(why) ==
    /\ pc' = "exit"
    /\ exitKind' = "panic"
    /\ failure' = why
    /\ cursor' = RunDeferred(cursor)

(* ---------------------------------------------------------- getClient --- *)

\* main, lines 103-110: the client secret file is read and parsed.
ReadClientSecret ==
    /\ pc = "start"
    /\ \E ok \in BOOLEAN :
         IF ok THEN pc' = "tokenFromFile" /\ UNCHANGED <<exitKind, failure>>
               ELSE Fatal("secret")
    /\ UNCHANGED <<authVars, loaders, loopVars, dbVars, gridVars, writes>>

\* A tokenFromFile that reports only the failure to open the file, and hands
\* back whatever a failed Decode left.
TokenFromFileErrOpenOnly(file) == file = "missing"

\* tokenFromFile: os.Open fails on a missing file, Decode on a corrupt one.
TokenFromFileErr(file) == file \in {"missing", "corrupt"}

TokenFromFile ==
    /\ pc = "tokenFromFile"
    /\ IF TokenFromFileErr(cache)
         THEN pc' = "getTokenFromWeb" /\ tok' = tok
         ELSE pc' = "client" /\ tok' = cache
    /\ UNCHANGED <<exitKind, failure, cache0, cache, authorized, prompts,
                   exchanges, loaders, loopVars, dbVars, gridVars, writes>>

\* getTokenFromWeb, lines 37-44: the URL is printed and one line is read.
GetTokenFromWeb ==
    /\ pc = "getTokenFromWeb"
    /\ prompts' = prompts + 1
    /\ \E scanned \in BOOLEAN :
         IF scanned THEN pc' = "exchange" /\ UNCHANGED <<exitKind, failure>>
                    ELSE Fatal("authcode")
    /\ UNCHANGED <<cache0, cache, tok, authorized, exchanges, loaders,
                   loopVars, dbVars, gridVars, writes>>

\* A getTokenFromWeb that carries on with an empty token when the exchange
\* is rejected.
ExchangeIgnoringError ==
    /\ pc = "exchange"
    /\ exchanges' = exchanges + 1
    /\ \E ok \in BOOLEAN :
         /\ tok' = IF ok THEN "newToken" ELSE "none"
         /\ failure' = IF ok THEN failure ELSE "exchange"
         /\ pc' = "saveToken"
         /\ exitKind' = exitKind
    /\ UNCHANGED <<cache0, cache, authorized, prompts, loaders, loopVars,
                   dbVars, gridVars, writes>>

\* getTokenFromWeb, lines 46-50: config.Exchange, fatal when rejected.
Exchange ==
    /\ pc = "exchange"
    /\ exchanges' = exchanges + 1
    /\ \E ok \in BOOLEAN :
         IF ok THEN /\ tok' = "newToken"
                    /\ pc' = "saveToken"
                    /\ UNCHANGED <<exitKind, failure>>
               ELSE /\ tok' = tok
                    /\ Fatal("exchange")
    /\ UNCHANGED <<cache0, cache, authorized, prompts, loaders, loopVars,
                   dbVars, gridVars, writes>>

\* saveToken: os.Create (fatal when it fails), then the token is encoded
\* into the file; the encoder's result is not looked at.
SaveToken ==
    /\ pc = "saveToken"
    /\ \E created \in BOOLEAN :
         IF created THEN /\ cache' = tok
                         /\ pc' = "client"
                         /\ UNCHANGED <<exitKind, failure>>
                    ELSE /\ cache' = cache
                         /\ Fatal("saveToken")
    /\ UNCHANGED <<cache0, tok, authorized, prompts, exchanges, loaders,
                   loopVars, dbVars, gridVars, writes>>

\* getClient line 31 and main lines 112-118: the http client is built from
\* the token, the Sheets service from the client, the loader map is read.
NewClient ==
    /\ pc = "client"
    /\ authorized' = TRUE
    /\ \E ok \in BOOLEAN :
         IF ok THEN /\ pc' = "loop"
                    /\ pending' = loaders
                    /\ UNCHANGED <<exitKind, failure>>
               ELSE /\ pending' = pending
                    /\ Fatal("sheetsNew")
    /\ UNCHANGED <<cache0, cache, tok, prompts, exchanges, loaders, loader,
                   spreadsheetId, rangeData, dbVars, gridVars, writes>>

(* ------------------------------------------------------ the loader loop --- *)

\* Line 122: the range is read from the key of the loader named "ulta".
RangeKeyLoader(l) == "ulta"

\* Lines 119-122: the map iteration hands out the loaders in any order; the
\* loop variables of the new iteration are set, and the variables declared
\* in the loop body (rows, columns, sheetValues, values) start afresh.
LoopNext ==
    /\ pc = "loop"
    /\ \E l \in pending :
         /\ loader' = l
         /\ pending' = pending \ {l}
         /\ spreadsheetId' = GetString(loaders, l, "sheet")
         /\ rangeData' = GetString(loaders, RangeKeyLoader(l), "range")
    /\ rows' = NoRows
    /\ fetched' = <<>>
    /\ exhausted' = FALSE
    /\ heap' = <<>>
    /\ sheetValues' = <<>>
    /\ pc' = "dbConnect"
    /\ UNCHANGED <<exitKind, failure, authVars, loaders, conns, cursor,
                   deferred, writes>>

\* Line 178: the loop is over, main returns and its deferred calls run.
MainReturn ==
    /\ pc = "loop"
    /\ pending = {}
    /\ pc' = "exit"
    /\ exitKind' = "return"
    /\ cursor' = RunDeferred(cursor)
    /\ UNCHANGED <<failure, authVars, loaders, loopVars, conns, rows,
                   deferred, fetched, exhausted, gridVars, writes>>

\* DbConnect, lines 180-198: sql.Open and Ping, fatal when either fails.
DbConnect ==
    /\ pc = "dbConnect"
    /\ \E ok \in BOOLEAN :
         IF ok THEN /\ conns' = Append(conns, loader)
                    /\ pc' = "query"
                    /\ UNCHANGED <<exitKind, failure>>
               ELSE /\ conns' = conns
                    /\ Fatal("dbConnect")
    /\ UNCHANGED <<authVars, loaders, loopVars, rows, cursor, deferred,
                   fetched, exhausted, gridVars, writes>>

\* Lines 125-126: db.Query, its error dropped, and the deferred Close.  A
\* failed query leaves rows nil; a successful one opens a cursor with 0..maxCols
\* columns, which may have a further result set behind the first (a query of
\* several statements).
Query(maxCols) ==
    /\ pc = "query"
    /\ \E ok \in BOOLEAN :
         IF ok
         THEN \E c \in 0..maxCols, more \in BOOLEAN :
                /\ rows' = [status  |-> "open",
                            columns |-> QueryColumns(GetString(loaders, loader, "query"), c),
                            more    |-> more]
                /\ cursor' = [cursor EXCEPT ![loader] = "open"]
         ELSE /\ rows' = [NoRows EXCEPT !.status = "nil"]
              /\ cursor' = [cursor EXCEPT ![loader] = "nil"]
    /\ deferred' = Append(deferred, loader)
    /\ pc' = "columns"
    /\ UNCHANGED <<exitKind, failure, authVars, loaders, loopVars, conns,
                   fetched, exhausted, gridVars, writes>>

(* ----------------------------------------------------- the conversion --- *)

\* Lines 129-132: the header slice, one string per column name.
Headers(columns) == [i \in 1..Len(columns) |-> Cell("string", columns[i])]

\* Line 133: sheetValues := [][]interface{}{headers}.
InitialGrid(headersAddr) == <<headersAddr>>

\* Lines 148-156: a []byte becomes a string, anything else is taken as is.
ConvertCell(val) ==
    IF val.t = "[]byte" THEN Cell("string", val.v) ELSE val

\* A row loop that stops one column short.
ConvertRowShort(values, columns) ==
    [i \in 1..(Len(columns) - 1) |-> ConvertCell(values[i])]

\* Lines 142, 147-158: x, a new slice with one converted value per column.
ConvertRow(values, columns) ==
    [i \in 1..Len(columns) |-> ConvertCell(values[i])]

\* An append of the scan buffer itself, converted in place, instead of a
\* new slice.
EmitRowAliased(h, grid, columns) ==
    [heap |-> [h EXCEPT ![ValuesAddr] = ConvertRow(h[ValuesAddr], columns)],
     grid |-> Append(grid, ValuesAddr)]

\* Lines 142-159: x is allocated, filled from the scan buffer and appended
\* to sheetValues.
EmitRow(h, grid, columns) ==
    [heap |-> Append(h, ConvertRow(h[ValuesAddr], columns)),
     grid |-> Append(grid, Len(h) + 1)]

\* The grid as the JSON encoder of the request reads it: every row slice
\* dereferenced.
GridOf(h, grid) == [i \in 1..Len(grid) |-> h[grid[i]]]

\* Lines 165-171: the BatchUpdateValuesRequest.
RequestBody(range, values) ==
    [valueInputOption |-> "USER_ENTERED",
     data |-> << [range |-> range, values |-> values] >>]

\* Lines 128-136: rows.Columns() (a nil rows panics there: the query had
\* failed), the header row, the grid, the scan buffer.
Columns ==
    /\ pc = "columns"
    /\ IF rows.status = "nil"
         THEN /\ Panic("query")
              /\ UNCHANGED gridVars
         ELSE /\ heap' = <<Headers(rows.columns), NilRow(Len(rows.columns))>>
              /\ sheetValues' = InitialGrid(HeadersAddr)
              /\ pc' = "next"
              /\ UNCHANGED <<exitKind, failure, cursor>>
    /\ UNCHANGED <<authVars, loaders, loopVars, conns, rows, deferred,
                   fetched, exhausted, writes>>

\* A row loop that takes a cursor without rows for a failure.
RowsNextEmptyIsError(maxRows) ==
    /\ pc = "next"
    /\ \/ /\ Len(fetched) < maxRows
          /\ \E r \in RawRows(Len(rows.columns)) : fetched' = Append(fetched, r)
          /\ pc' = "scan"
          /\ UNCHANGED <<exitKind, failure, rows, cursor, exhausted>>
       \/ /\ exhausted' = TRUE
          /\ rows' = IF rows.more THEN rows ELSE [rows EXCEPT !.status = "closed"]
          /\ IF fetched = <<>>
               THEN Panic("scan")
               ELSE /\ cursor' = IF rows.more THEN cursor
                                 ELSE [cursor EXCEPT ![loader] = "closed"]
                    /\ pc' = "send"
                    /\ UNCHANGED <<exitKind, failure>>
          /\ UNCHANGED fetched
    /\ UNCHANGED <<authVars, loaders, loopVars, conns, deferred, gridVars,
                   writes>>

\* Line 138, rows.Next(): either the cursor yields one more row, or it
\* reports the end; at the end database/sql closes the cursor itself unless
\* a further result set waits behind this one.
RowsNext(maxRows) ==
    /\ pc = "next"
    /\ \/ /\ Len(fetched) < maxRows
          /\ \E r \in RawRows(Len(rows.columns)) : fetched' = Append(fetched, r)
          /\ pc' = "scan"
          /\ UNCHANGED <<rows, cursor, exhausted>>
       \/ /\ exhausted' = TRUE
          /\ rows' = IF rows.more THEN rows ELSE [rows EXCEPT !.status = "closed"]
          /\ cursor' = IF rows.more THEN cursor
                       ELSE [cursor EXCEPT ![loader] = "closed"]
          /\ pc' = "send"
          /\ UNCHANGED fetched
    /\ UNCHANGED <<exitKind, failure, authVars, loaders, loopVars, conns,
                   deferred, gridVars, writes>>

\* What rows.Scan may return, as the switch of line 143 tells them apart.
ScanResults == {"nil", "ErrNoRows", "other"}

\* Lines 139-146, 160-162: the row is scanned into the shared buffer; any
\* error panics.
ScanRow ==
    /\ pc = "scan"
    /\ \E err \in ScanResults :
         IF err = "nil"
         THEN /\ heap' = [heap EXCEPT ![ValuesAddr] = fetched[Len(fetched)]]
              /\ pc' = "convert"
              /\ UNCHANGED <<exitKind, failure, cursor>>
         ELSE /\ Panic("scan")
              /\ heap' = heap
    /\ UNCHANGED <<authVars, loaders, loopVars, conns, rows, deferred,
                   fetched, exhausted, sheetValues, writes>>

\* A row loop that sends the grid as soon as a row is in it, the cursor not
\* yet read to its end.
AppendRowThenSend ==
    /\ pc = "convert"
    /\ LET e == EmitRow(heap, sheetValues, rows.columns)
       IN  heap' = e.heap /\ sheetValues' = e.grid
    /\ pc' = "send"
    /\ UNCHANGED <<exitKind, failure, authVars, loaders, loopVars, dbVars,
                   writes>>

\* Lines 147-159: the scanned row is converted and appended.
AppendRow ==
    /\ pc = "convert"
    /\ LET e == EmitRow(heap, sheetValues, rows.columns)
       IN  heap' = e.heap /\ sheetValues' = e.grid
    /\ pc' = "next"
    /\ UNCHANGED <<exitKind, failure, authVars, loaders, loopVars, dbVars,
                   writes>>

\* Lines 165-176: the one BatchUpdate of the loader; log.Fatal when it is
\* rejected, otherwise on to the next loader.
Send ==
    /\ pc = "send"
    /\ \E ok \in BOOLEAN :
         /\ writes' = Append(writes,
                [loader        |-> loader,
                 spreadsheetId |-> spreadsheetId,
                 body          |-> RequestBody(rangeData, GridOf(heap, sheetValues)),
                 accepted      |-> ok])
         /\ IF ok THEN pc' = "loop" /\ UNCHANGED <<exitKind, failure>>
                  ELSE Fatal("write")
    /\ UNCHANGED <<authVars, loaders, loopVars, dbVars, gridVars>>

(* ------------------------------------------------------ specifications --- *)

NextWith(maxCols, maxRows) ==
    \/ ReadClientSecret
    \/ TokenFromFile
    \/ GetTokenFromWeb
    \/ Exchange
    \/ SaveToken
    \/ NewClient
    \/ LoopNext
    \/ MainReturn
    \/ DbConnect
    \/ Query(maxCols)
    \/ Columns
    \/ RowsNext(maxRows)
    \/ ScanRow
    \/ AppendRow
    \/ Send

\* A batch: any set of configured loaders, small cursors.
Init == InitWith(SUBSET LoaderNames)
Next == NextWith(BatchCols, BatchRows)
Spec == Init /\ [][Next]_vars

\* One configured loader, cursors up to MaxCols columns and MaxRows rows.
InitConv == InitWith({{"ulta"}})
NextConv == NextWith(MaxCols, MaxRows)
SpecConv == InitConv /\ [][NextConv]_vars

(* -------------------------------------------------------------- claims --- *)

\* The grid of the running loader as the request would carry it.
Grid == GridOf(heap, sheetValues)

\* The texts of a row's cells, their Go types left aside.
Texts(row) == [j \in 1..Len(row) |-> row[j].v]

\* The write requests sent for the running loader.
OwnWrites == {k \in 1..Len(writes) : writes[k].loader = loader}

\* C1: once the row loop of a loader whose query succeeded has ended without
\* a scan error, the grid has one row more than the cursor yielded, row 0 is
\* the column names in cursor order, rows 1..R are the cursor's rows in
\* order, every row has as many cells as there are columns, and that grid is
\* what the write request carries.
C1_GridShape ==
    exhausted =>
        LET C == Len(rows.columns)
            R == Len(fetched)
        IN  /\ Len(Grid) = R + 1
            /\ \A i \in 1..Len(Grid) : Len(Grid[i]) = C
            /\ Texts(Grid[1]) = rows.columns
            /\ \A i \in 1..R : Texts(Grid[i + 1]) = Texts(fetched[i])
            /\ \A k \in OwnWrites : writes[k].body.data[1].values = Grid

C1_Witness ==
    /\ exhausted
    /\ Len(fetched) = 2
    /\ Len(rows.columns) = 2
    /\ fetched[1] # fetched[2]
    /\ OwnWrites # {}

\* C2: when the query succeeded and the cursor yielded no row, the grid is
\* the header row alone, the process has not panicked, the only failure it
\* can have met is the rejection of the write, and the loader is at its
\* write or has sent it with that header-only grid.
C2_EmptyResultIsHeaderOnly ==
    (exhausted /\ fetched = <<>>) =>
        /\ Len(Grid) = 1
        /\ Texts(Grid[1]) = rows.columns
        /\ exitKind # "panic"
        /\ failure \in {"none", "write"}
        /\ \/ pc = "send"
           \/ /\ OwnWrites # {}
              /\ \A k \in OwnWrites :
                    /\ Len(writes[k].body.data[1].values) = 1
                    /\ Texts(writes[k].body.data[1].values[1]) = rows.columns

C2_Witness ==
    /\ exhausted
    /\ fetched = <<>>
    /\ \E k \in OwnWrites : writes[k].accepted
    /\ exitKind = "return"

\* The failures that belong to one loader: its query, a row scan, its write.
PerLoaderFailures == {"query", "scan", "write"}

\* C3: a failure of one loader's query, scan or write does not end the
\* process, and when the process has ended every configured loader has been
\* attempted.
C3_FailureAbortsOnlyThatLoader ==
    failure \in PerLoaderFailures =>
        /\ exitKind \notin {"fatal", "panic"}
        /\ pc = "exit" => \A l \in loaders : \E i \in 1..Len(conns) : conns[i] = l

\* C4: every write sent for a loader goes to that loader's own spreadsheet
\* and range and carries the header of that loader's own query.
C4_WriteUsesOwnConfig ==
    \A k \in 1..Len(writes) :
        LET w == writes[k]
            d == w.body.data[1]
        IN  /\ w.spreadsheetId = ConfigFile[w.loader].sheet
            /\ d.range = ConfigFile[w.loader].range
            /\ Texts(d.values[1]) =
                  QueryColumns(ConfigFile[w.loader].query, Len(d.values[1]))

C6_ExchangeFailureIsFatal ==
    failure \in {"authcode", "exchange"} =>
        /\ pc = "exit"
        /\ exitKind = "fatal"
        /\ prompts = 1
        /\ exchanges <= 1
        /\ cache = cache0
        /\ ~authorized
        /\ conns = <<>>
        /\ writes = <<>>
        /\ \A l \in LoaderNames : cursor[l] = "unopened"

C6_Witness ==
    /\ failure = "exchange"
    /\ exchanges = 1
    /\ pc = "exit"

\* C7: when the loop moves on to the next loader, and when the process has
\* ended, no cursor is open.
C7_NoCursorLeftOpen ==
    pc \in {"loop", "exit"} => \A l \in LoaderNames : cursor[l] # "open"

\* C8: every data cell of the grid is a string, and the cell of a SQL NULL
\* is the empty string.
C8_CellsAreStrings ==
    \A i \in 2..Len(sheetValues) : \A j \in 1..Len(Grid[i]) :
        /\ Grid[i][j].t = "string"
        /\ fetched[i - 1][j].t = "nil" => Grid[i][j].v = ""

\* C9: connections are opened one per loader and never for a loader twice;
\* the i-th write belongs to the i-th connection, so a connection is opened
\* only after the write of the one before it has returned; a write is sent
\* only after rows.Next has reported the end of the cursor; and each request
\* holds one range/grid pair with the option USER_ENTERED.
C9_SequentialSingleWrite ==
    /\ Len(writes) <= Len(conns)
    /\ Len(conns) <= Len(writes) + 1
    /\ \A i, j \in 1..Len(conns) : conns[i] = conns[j] => i = j
    /\ Len(conns) = Len(writes) + 1 => conns[Len(conns)] = loader
    /\ \A k \in 1..Len(writes) :
          /\ writes[k].loader = conns[k]
          /\ writes[k].body.valueInputOption = "USER_ENTERED"
          /\ Len(writes[k].body.data) = 1
    /\ OwnWrites # {} => exhausted

C9_Witness ==
    /\ Len(writes) = 2
    /\ writes[1].loader # writes[2].loader
    /\ exitKind = "return"

\* C10: the rows of the grid are slices of their own, none the scan buffer
\* and no two the same, so that whatever the buffer holds now, the header is
\* still the column names and the i-th data row is still the i-th row the
\* cursor yielded.
C10_NoAliasing ==
    /\ \A i \in 1..Len(sheetValues) : sheetValues[i] # ValuesAddr
    /\ \A i, j \in 1..Len(sheetValues) : sheetValues[i] = sheetValues[j] => i = j
    /\ sheetValues # <<>> => Texts(Grid[1]) = rows.columns
    /\ \A i \in 2..Len(sheetValues) : Texts(Grid[i]) = Texts(fetched[i - 1])
    /\ \A k \in OwnWrites :
          \A i \in 2..Len(sheetValues) :
              Texts(writes[k].body.data[1].values[i]) = Texts(fetched[i - 1])

C10_Witness ==
    /\ pc = "convert"
    /\ Len(sheetValues) = 2
    /\ heap[ValuesAddr] = fetched[2]
    /\ fetched[2] # fetched[1]

====
